---- MODULE Spec2Model ----
(***************************************************************************)
(* Model of the particle-filter localization engine of                     *)
(* src/src/particle_filter/particle_filter.py.                             *)
(*                                                                         *)
(* Units.  Pixel positions are kept in half pixels (x = 2 * pixels), so    *)
(* that tw / 2.0 and every rounding tie of round(xc - tw / 2.0) is exact.  *)
(* Floating-point values are records: c is "fin", "nan", "pinf" or "ninf"  *)
(* and v the integer value of a finite one.  Scores are in hundredths.     *)
(* Weights are exact fractions n / d; d = 0 stands for a non-finite value. *)
(***************************************************************************)
EXTENDS Integers, Sequences, FiniteSets, TLC

VARIABLES pc, cfg, ctx, tpl, rng, seeds, parts, scores, weights, iteration,
          est, meas, err, log, trace, hist, patch, hog

vars == <<pc, cfg, ctx, tpl, rng, seeds, parts, scores, weights, iteration,
          est, meas, err, log, trace, hist, patch, hog>>

----------------------------------------------------------------------------
(* Bounds of the model *)

MaxIters == 2
MaxExtra == 1
MaxSeed == 2
MaxVecLen == 3
ConfGrid == 12
MaxPix == 1
MaxRadius == 3
MaxStep == 3

----------------------------------------------------------------------------
(* Program constants.  SEED_STD_PX and STEP_PX are in pixels; the scores  *)
(* GATE_SENTINEL (-1e3) and the weights W_* are in hundredths, as are the *)
(* quantile STRUCT_Q_BIG and the fraction MIN_STRUCT_FRAC; ORIGIN_X and   *)
(* ORIGIN_Y are in tenths of a pixel.  MIRROR_SENTINEL stands for -1e9:   *)
(* it lies below every score and is only ever compared.                   *)

SEED_TOPK == 10
SEED_STD_PX == 12
STEP_PX == 1
MIN_TPL == 8
GATE_SENTINEL == -100000
EXP_CLIP_LO == -700
EXP_CLIP_HI == 700
SOFTMAX_GAIN == 20
STRUCT_Q_BIG == 55
MIN_STRUCT_FRAC == 25
W_ZNCC_HP == 55
W_HOG == 35
W_ZNCC_MAG == 10
HOG_BINS == 16
MIRROR_SENTINEL == -2000000000
Z_HEIGHT == 50
ORIGIN_X == 8871
ORIGIN_Y == 5136
MARGIN_GAIN == 5
MEAS_NOISE == 1
REFINE_RADIUS == 8
REFINE_STEP == 1

----------------------------------------------------------------------------
(* Integer helpers *)

Abs(n) == IF n < 0 THEN -n ELSE n

Max2(a, b) == IF a >= b THEN a ELSE b

Min2(a, b) == IF a <= b THEN a ELSE b

RECURSIVE Gcd(_, _)
Gcd(a, b) == IF b = 0 THEN a ELSE Gcd(b, a % b)

Lcm(a, b) == (a * b) \div Gcd(a, b)

(* a function on 1..n as a sequence *)
AsSeq(f) == f \o <<>>

RECURSIVE SumTo(_, _)
SumTo(f, n) == IF n = 0 THEN 0 ELSE f[n] + SumTo(f, n - 1)

(* round(num / den) to the nearest integer, ties to the even one: Python's *)
(* round() and numpy's rint.  den > 0.                                     *)
RoundHalfEven(num, den) ==
    LET lo == num \div den
        r2 == 2 * (num % den)
    IN  IF r2 < den THEN lo
        ELSE IF r2 > den THEN lo + 1
        ELSE IF lo % 2 = 0 THEN lo ELSE lo + 1

(* np.clip(a, lo, hi) = minimum(hi, maximum(a, lo)); hi wins when lo > hi. *)
Clip(a, lo, hi) == Min2(hi, Max2(a, lo))

----------------------------------------------------------------------------
(* Floating-point values *)

Fin(n) == [c |-> "fin", v |-> n]
NaN == [c |-> "nan", v |-> 0]
PInf == [c |-> "pinf", v |-> 0]
NInf == [c |-> "ninf", v |-> 0]

IsFinite(a) == a.c = "fin"

FNeg(a) == CASE a.c = "fin" -> Fin(-a.v)
             [] a.c = "pinf" -> NInf
             [] a.c = "ninf" -> PInf
             [] OTHER -> NaN

FAdd(a, b) ==
    CASE a.c = "nan" \/ b.c = "nan" -> NaN
      [] a.c = "fin" /\ b.c = "fin" -> Fin(a.v + b.v)
      [] a.c = "fin" -> b
      [] b.c = "fin" -> a
      [] a.c = b.c -> a
      [] OTHER -> NaN

FSub(a, b) == FAdd(a, FNeg(b))

FSign(a) == CASE a.c = "pinf" -> 1
              [] a.c = "ninf" -> -1
              [] a.c = "fin" -> (IF a.v > 0 THEN 1 ELSE IF a.v < 0 THEN -1 ELSE 0)
              [] OTHER -> 0

(* g * d / 100: the gain is a number, the score difference is in hundredths *)
FScale(g, d) ==
    CASE g.c = "nan" \/ d.c = "nan" -> NaN
      [] g.c = "fin" /\ d.c = "fin" -> Fin((g.v * d.v) \div 100)
      [] FSign(g) * FSign(d) = 0 -> NaN
      [] FSign(g) * FSign(d) > 0 -> PInf
      [] OTHER -> NInf

FLess(a, b) ==
    CASE a.c = "nan" \/ b.c = "nan" -> FALSE
      [] a.c = "fin" /\ b.c = "fin" -> a.v < b.v
      [] a.c = "ninf" -> b.c # "ninf"
      [] a.c = "pinf" -> FALSE
      [] OTHER -> b.c = "pinf"

(* np.clip on a float: NaN stays NaN, infinities go to the bounds *)
FClip(a, lo, hi) ==
    CASE a.c = "nan" -> NaN
      [] a.c = "pinf" -> Fin(hi)
      [] a.c = "ninf" -> Fin(lo)
      [] OTHER -> Fin(Clip(a.v, lo, hi))

(* np.exp on the clipped range [EXP_CLIP_LO, EXP_CLIP_HI]: an            *)
(* order-preserving embedding into the positive integers (the unit is    *)
(* exp(EXP_CLIP_LO)); only sign, zero-ness, order and the normalisation  *)
(* of the result are observed, never a magnitude.                        *)
FExp(a) == IF a.c = "fin" THEN Fin(a.v - EXP_CLIP_LO + 1) ELSE NaN

(* np.nanmax: the largest entry that is not NaN; NaN when all are NaN *)
RECURSIVE NanMaxFrom(_, _)
NanMaxFrom(x, n) ==
    IF n = 0 THEN NaN
    ELSE LET rest == NanMaxFrom(x, n - 1)
         IN  IF x[n].c = "nan" THEN rest
             ELSE IF rest.c = "nan" THEN x[n]
             ELSE IF FLess(rest, x[n]) THEN x[n] ELSE rest

NanMax(x) == NanMaxFrom(x, Len(x))

----------------------------------------------------------------------------
(* Weights: exact fractions *)

(* the fraction n / d in lowest terms *)
Rat(n, d) ==
    IF d <= 0 THEN [n |-> n, d |-> 0]
    ELSE [n |-> n \div Gcd(Abs(n), d), d |-> d \div Gcd(Abs(n), d)]

RatFinite(w) == w.d > 0

(* np.ones(n) without the division by n *)
UniformUnnormalised(n) == [i \in 1..n |-> Rat(1, 1)]

(* np.ones_like(w) / len(w), lines 150 and 157; np.ones(N) / N, line 320 *)
Uniform(n) == [i \in 1..n |-> Rat(1, n)]

(* softmax(x, g), lines 144-150 *)
SoftmaxNoFallback(x, g) ==
    LET m == NanMax(x)
        e == [i \in 1..Len(x) |->
                FExp(FClip(FScale(g, FSub(x[i], m)), EXP_CLIP_LO, EXP_CLIP_HI))]
        z == [i \in 1..Len(x) |-> IF IsFinite(e[i]) THEN e[i].v ELSE 0]
        s == SumTo(z, Len(x))
    IN  [i \in 1..Len(x) |-> Rat(z[i], s)]

softmax(x, g) ==
    LET m == NanMax(x)
        e == [i \in 1..Len(x) |->
                FExp(FClip(FScale(g, FSub(x[i], m)), EXP_CLIP_LO, EXP_CLIP_HI))]
        z == [i \in 1..Len(x) |-> IF IsFinite(e[i]) THEN e[i].v ELSE 0]
        s == SumTo(z, Len(x))
    IN  IF s > 0 THEN [i \in 1..Len(x) |-> Rat(z[i], s)]
        ELSE Uniform(Len(x))

(* the branch of line 150 that softmax takes on x: TRUE for the uniform fallback *)
SoftmaxFellBack(x, g) ==
    LET m == NanMax(x)
        e == [i \in 1..Len(x) |->
                FExp(FClip(FScale(g, FSub(x[i], m)), EXP_CLIP_LO, EXP_CLIP_HI))]
        z == [i \in 1..Len(x) |-> IF IsFinite(e[i]) THEN e[i].v ELSE 0]
    IN  SumTo(z, Len(x)) <= 0

----------------------------------------------------------------------------
(* The reference image and its structured mask.  A reference image is     *)
(* given by its size and its gradient-magnitude map big_mag, which is 0   *)
(* on the columns left of `flat` (a textureless region) and 1 or 2 on the *)
(* others: 2 on the first and last column only when `rim`, 2 on every     *)
(* other pixel otherwise.                                                 *)

Mag(c, x, y) ==
    IF c.rim THEN (IF x = 0 \/ x = c.W - 1 THEN 2 ELSE IF x < c.flat THEN 0 ELSE 1)
    ELSE IF x < c.flat THEN 0 ELSE 1 + ((x + y) % 2)

Pixels(c) == (0..(c.W - 1)) \X (0..(c.H - 1))

(* the k-th smallest value (k from 0) of big_mag *)
SortedMag(c, k) ==
    LET c0 == Cardinality({p \in Pixels(c) : Mag(c, p[1], p[2]) = 0})
        c1 == Cardinality({p \in Pixels(c) : Mag(c, p[1], p[2]) = 1})
    IN  IF k < c0 THEN 0 ELSE IF k < c0 + c1 THEN 1 ELSE 2

(* 100 * np.quantile(big_mag, q / 100), linear interpolation, line 192 *)
Quantile(c, q) ==
    LET n == c.W * c.H
        h == q * (n - 1)
        lo == h \div 100
        hi == Min2(lo + 1, n - 1)
    IN  100 * SortedMag(c, lo) + (h % 100) * (SortedMag(c, hi) - SortedMag(c, lo))

(* big_struct_mask = big_mag >= tau_struct, line 193 *)
Mask(c, x, y) == 100 * Mag(c, x, y) >= c.tau

(* the indices a Python slice [a : b] selects from an axis of length n *)
PyIndex(a, n) == IF a < 0 THEN Max2(a + n, 0) ELSE Min2(a, n)

PySlice(a, b, n) == PyIndex(a, n)..(PyIndex(b, n) - 1)

PySliceLen(a, b, n) == Max2(0, PyIndex(b, n) - PyIndex(a, n))

WinCols(c, t, x0) == PySlice(x0, x0 + t.tw, c.W)

WinRows(c, t, y0) == PySlice(y0, y0 + t.th, c.H)

(* struct_win.shape != (th, tw), line 335 *)
ShapeOK(c, t, x0, y0) ==
    /\ PySliceLen(y0, y0 + t.th, c.H) = t.th
    /\ PySliceLen(x0, x0 + t.tw, c.W) = t.tw

(* struct_win.mean() < MIN_STRUCT_FRAC, line 335 *)
LowStructure(c, t, x0, y0) ==
    100 * Cardinality({p \in WinCols(c, t, x0) \X WinRows(c, t, y0) :
                          Mask(c, p[1], p[2])})
        < MIN_STRUCT_FRAC * t.th * t.tw

(* every pixel of the window has gradient magnitude 0 *)
FlatWindow(c, t, x0, y0) ==
    \A p \in WinCols(c, t, x0) \X WinRows(c, t, y0) : Mag(c, p[1], p[2]) = 0

(* the window origin of a particle: int(round(xc - tw / 2.0)), line 331 *)
Origin(v, size) == RoundHalfEven(v - size, 2)

(* The three similarity terms at a window, each in {-1, 0, 1}: ZNCC and  *)
(* the histogram cosine are functions of the window and the template,    *)
(* given here by the texture id of the tile.  The textures 0 and 1 match *)
(* one window in three; a texture from 2 on matches only on odd rows, at *)
(* the columns x0 with x0 + 1 a multiple of tex + 1.                     *)
SHp(t, x0, y0) ==
    IF t.tex < 2 THEN (((t.tex + 1) * (x0 + 2 * y0) + t.tex) % 3) - 1
    ELSE IF y0 % 2 = 1 /\ (x0 + 1) % (t.tex + 1) = 0 THEN 1 ELSE -1

SHog(t, x0, y0) == ((x0 + y0 + t.tex) % 2)

SMag(t, x0, y0) == (((x0 + 2) * (t.tex + 1) + y0) % 3) - 1

(* W_ZNCC_HP * s_hp + W_HOG * s_hog + W_ZNCC_MAG * s_mag, line 354; a    *)
(* template holding a NaN makes every term NaN.                          *)
Composite(t, x0, y0) ==
    IF t.nan THEN NaN
    ELSE Fin(W_ZNCC_HP * SHp(t, x0, y0) + W_HOG * SHog(t, x0, y0)
             + W_ZNCC_MAG * SMag(t, x0, y0))

(* a score without the gate: the composite score of every window *)
ScoreAtUngated(c, t, p) == Composite(t, Origin(p.x, t.tw), Origin(p.y, t.th))

(* the gate of lines 334-336 *)
Gated(c, t, x0, y0) == ~ShapeOK(c, t, x0, y0) \/ LowStructure(c, t, x0, y0)

(* scores[j] of lines 330-354 for the particle p *)
ScoreAt(c, t, p) ==
    LET x0 == Origin(p.x, t.tw)
        y0 == Origin(p.y, t.th)
    IN  IF Gated(c, t, x0, y0) THEN Fin(GATE_SENTINEL) ELSE Composite(t, x0, y0)

----------------------------------------------------------------------------
(* The global generator of np.random: a state in 0..RngMod - 1, advanced *)
(* by every draw through all the states in turn.                         *)

RngMod == 9

NextRng(r) == (4 * r + 2) % RngMod

RECURSIVE Adv(_, _)
Adv(r, k) == IF k = 0 THEN r ELSE Adv(NextRng(r), k - 1)

(* twice a standard normal deviate, from the state that draws it *)
Z2(r) == (r % 9) - 4

(* np.random.normal(mu, sigma, ...)[k], k from 0, in half pixels *)
Normal(mu, sigmaPx, r, k) == mu + sigmaPx * Z2(Adv(r, k))

(* np.random.uniform(lo, hi, ...)[k], k from 0, in half pixels *)
UniformDraw(lo, hi, r, k) == lo + ((hi - lo) * Adv(r, k)) \div RngMod

----------------------------------------------------------------------------
(* Bounds of the valid region, lines 299-300, in half pixels *)

X_MIN(t) == t.tw
X_MAX(c, t) == 2 * c.W - t.tw
Y_MIN(t) == t.th
Y_MAX(c, t) == 2 * c.H - t.th

ClipNone(c, t, p) == p

ClipPart(c, t, p) == [x |-> Clip(p.x, X_MIN(t), X_MAX(c, t)),
                      y |-> Clip(p.y, Y_MIN(t), Y_MAX(c, t))]

(* The correlation map of match_template(big_hp, tpl_hp, pad_input=True), *)
(* line 289: one value per pixel of the reference image.                  *)
CorrAt(c, t, f) == (3 * (f % c.W) + 5 * (f \div c.W) + 7 * t.tex) % 11

(* the m smallest members of S, ascending *)
RECURSIVE TakeMin(_, _)
TakeMin(S, m) ==
    IF m = 0 \/ S = {} THEN <<>>
    ELSE LET f == CHOOSE a \in S : \A b \in S : a <= b
         IN  <<f>> \o TakeMin(S \ {f}, m - 1)

(* np.argpartition(flat, -K)[-K:], line 291: the flat indices of the K   *)
(* largest values, taken from the largest value v down, ascending within *)
(* one value.                                                            *)
RECURSIVE TopKFrom(_, _, _, _)
TopKFrom(c, t, k, v) ==
    IF k = 0 \/ v < 0 THEN <<>>
    ELSE LET got == TakeMin({f \in 0..(c.W * c.H - 1) : CorrAt(c, t, f) = v}, k)
         IN  got \o TopKFrom(c, t, k - Len(got), v - 1)

(* 10 is the largest value CorrAt takes *)
TopK(c, t, k) == TopKFrom(c, t, k, 10)

(* seeds, lines 292-296: (xpk + tw / 2, ypk + th / 2) *)
Seeds(c, t) ==
    LET top == TopK(c, t, SEED_TOPK)
    IN  AsSeq([k \in 1..SEED_TOPK |->
            [x |-> 2 * (top[k] % c.W) + t.tw, y |-> 2 * (top[k] \div c.W) + t.th]])

(* n_local_each, line 304: max(1, int(0.8 * NUM_PARTS / max(1, len(seeds)))) *)
NLocalEach(n, nseeds) == Max2(1, (8 * n) \div (10 * Max2(1, nseeds)))

(* n_local and n_global, lines 310-311 *)
NLocal(n, nseeds) == NLocalEach(n, nseeds) * (IF nseeds > 0 THEN nseeds ELSE 1)

NGlobal(n, nseeds) == Max2(0, n - NLocal(n, nseeds))

(* parts after lines 303-319: the seed clusters, then the global draws,  *)
(* all clipped.  Each seed draws its x column, then its y column.        *)
InitParts(c, t, sd, n, r) ==
    LET each == NLocalEach(n, Len(sd))
        nl == each * Len(sd)
        ng == NGlobal(n, Len(sd))
        raw == [i \in 1..(nl + ng) |->
                  IF i <= nl
                  THEN LET k == ((i - 1) \div each) + 1
                           j == (i - 1) % each
                           ctr == ClipPart(c, t, sd[k])
                           base == 2 * (k - 1) * each
                       IN  [x |-> Normal(ctr.x, SEED_STD_PX, r, base + j),
                            y |-> Normal(ctr.y, SEED_STD_PX, r, base + each + j)]
                  ELSE LET j == i - nl - 1
                       IN  [x |-> UniformDraw(X_MIN(t), X_MAX(c, t), r, 2 * nl + j),
                            y |-> UniformDraw(Y_MIN(t), Y_MAX(c, t), r, 2 * nl + ng + j)]]
    IN  [i \in 1..(nl + ng) |-> ClipPart(c, t, raw[i])]

(* the draws lines 303-319 take from the generator *)
InitDraws(n, nseeds) == 2 * NLocal(n, nseeds) + 2 * NGlobal(n, nseeds)

----------------------------------------------------------------------------
(* resample(parts, w), lines 153-159 *)

RECURSIVE LcmDen(_, _)
LcmDen(w, n) ==
    IF n = 0 THEN 1
    ELSE IF RatFinite(w[n]) THEN Lcm(w[n].d, LcmDen(w, n - 1)) ELSE LcmDen(w, n - 1)

(* lines 155-157: numerators of the weights over one denominator, the    *)
(* non-finite ones replaced by 0; all ones when the sum is not positive  *)
ResampleP(w) ==
    LET n == Len(w)
        D == LcmDen(w, n)
        a == AsSeq([i \in 1..n |->
                      IF RatFinite(w[i]) THEN w[i].n * (D \div w[i].d) ELSE 0])
    IN  IF SumTo(a, n) <= 0 THEN AsSeq([i \in 1..n |-> 1]) ELSE a

(* np.cumsum *)
RECURSIVE CumSum(_, _)
CumSum(p, n) ==
    IF n = 0 THEN <<>>
    ELSE LET c == CumSum(p, n - 1)
         IN  Append(c, p[n] + (IF n = 1 THEN 0 ELSE c[n - 1]))

(* np.random.choice(n, size=n, p=w)[j], j from 0: the uniform deviate of *)
(* the draw is searched in the cumulative sums of p (side = right)       *)
ChoiceIdx(cdf, r, j) ==
    LET n == Len(cdf)
    IN  1 + Cardinality({i \in 1..n : cdf[i] * RngMod <= Adv(r, j) * cdf[n]})

ResampleShort(ps, w, r) ==
    LET p == ResampleP(w)
        cdf == CumSum(p, Len(p))
    IN  [j \in 1..(Len(ps) - 1) |-> ps[ChoiceIdx(cdf, r, j - 1)]]

resample(ps, w, r) ==
    LET p == ResampleP(w)
        cdf == CumSum(p, Len(p))
    IN  [j \in 1..Len(ps) |-> ps[ChoiceIdx(cdf, r, j - 1)]]

----------------------------------------------------------------------------
(* Pure-function specification of softmax: the score vector and the gain  *)
(* are drawn at Init, the one action applies softmax.                     *)

ScoreAtoms == {NaN, PInf, NInf, Fin(GATE_SENTINEL), Fin(0), Fin(-35)}

Gains == {Fin(0), Fin(1), Fin(SOFTMAX_GAIN)}

Vectors(S, n) == UNION {[1..k -> S] : k \in 1..n}

NoCfg == [NUM_PARTS |-> 0, NUM_ITERS |-> 0, SOFTMAX_GAIN |-> Fin(SOFTMAX_GAIN),
          STRUCT_Q_BIG |-> STRUCT_Q_BIG, VERBOSE |-> FALSE,
          REFINE_RADIUS |-> REFINE_RADIUS, REFINE_STEP |-> REFINE_STEP]

NoCtx == [loaded |-> FALSE, H |-> 0, W |-> 0, flat |-> 0, rim |-> FALSE, tau |-> 0]

NoTpl == [th |-> 0, tw |-> 0, nan |-> FALSE, tex |-> 0]

NoCov == [xx |-> Rat(0, 1), xy |-> Rat(0, 1), yx |-> Rat(0, 1), yy |-> Rat(0, 1)]

NoEst == [mx |-> 0, my |-> 0, xh |-> 0, yh |-> 0, sHere |-> NaN, sMirr |-> NaN,
          mirrored |-> FALSE, margin |-> Rat(0, 1), entropy |-> "none",
          conf |-> [known |-> FALSE, v |-> Rat(0, 1)], cov |-> NoCov]

NoMeas == [set |-> FALSE, x |-> Rat(0, 1), y |-> Rat(0, 1),
           margin |-> Rat(0, 1), entropy |-> "none",
           conf |-> [known |-> FALSE, v |-> Rat(0, 1)], cov |-> NoCov]

(* what the run has done so far: reads of the two files, the generator   *)
(* state at the call, whether softmax took its uniform branch, whether   *)
(* np.clip moved a particle, the particle count after initialization;    *)
(* and the origin, in tenths of a pixel, that the caller wants the pose  *)
(* referred to, for which the call has no argument; the number of calls  *)
(* that returned before this one, the request and the result of the      *)
(* last of them, and whether the caller has put the generator back into  *)
(* the state that call started from; the raw shape of the tile file of  *)
(* the call, 0 by 0 when the caller hands in a template                  *)
NoPrev == [tpl |-> NoTpl, rng0 |-> 0, meas |-> NoMeas, mirrored |-> FALSE]

NoHist == [refLoads |-> 0, tileLoads |-> 0, rng0 |-> 0, fellBack |-> FALSE,
           clipped |-> FALSE, nInit |-> 0,
           wantOrigin |-> [x |-> ORIGIN_X, y |-> ORIGIN_Y],
           calls |-> 0, prev |-> NoPrev, reseeded |-> FALSE, raw |-> [h |-> 0, w |-> 0]]

(* an image region given to the feature functions on their own, and the  *)
(* histograms computed from it; empty during a localization run          *)
NoPatch == [h |-> 0, w |-> 0, px |-> <<>>]

NoHog == [n |-> 0, cur |-> <<>>, prev |-> <<>>]

Idle ==
    /\ patch = NoPatch /\ hog = NoHog
    /\ ctx = NoCtx /\ tpl = NoTpl /\ seeds = <<>> /\ iteration = 0
    /\ est = NoEst /\ meas = NoMeas /\ err = "none" /\ log = <<>> /\ trace = <<>>

InitSoftmax ==
    /\ pc = "softmax_in"
    /\ scores \in Vectors(ScoreAtoms, MaxVecLen)
    /\ \E g \in Gains : cfg = [NoCfg EXCEPT !.SOFTMAX_GAIN = g]
    /\ weights = <<>> /\ parts = <<>>
    /\ rng = 0
    /\ hist = NoHist
    /\ Idle

ApplySoftmax ==
    /\ pc = "softmax_in"
    /\ weights' = softmax(scores, cfg.SOFTMAX_GAIN)
    /\ hist' = [hist EXCEPT !.fellBack = SoftmaxFellBack(scores, cfg.SOFTMAX_GAIN)]
    /\ pc' = "softmax_out"
    /\ UNCHANGED <<patch, hog, seeds, cfg, ctx, tpl, rng, parts, scores, iteration, est, meas, err,
                   log, trace>>

NextSoftmax == ApplySoftmax

SpecSoftmax == InitSoftmax /\ [][NextSoftmax]_vars

----------------------------------------------------------------------------
(* The localization run: process_single_image calls build_big_context and *)
(* predict_single_image; localize_one_image_on_big may also be called     *)
(* with a template of the caller's.                                       *)

RefImages ==
    {[W |-> 18, H |-> 8, flat |-> 8, rim |-> FALSE],
     [W |-> 18, H |-> 8, flat |-> 12, rim |-> FALSE],
     [W |-> 18, H |-> 8, flat |-> 0, rim |-> TRUE],
     [W |-> 18, H |-> 10, flat |-> 8, rim |-> FALSE]}

(* the tile files: raw shape, whether a pixel is NaN, texture id *)
Tiles ==
    {[rawH |-> 8, rawW |-> 8, nan |-> FALSE, tex |-> 0],
     [rawH |-> 8, rawW |-> 8, nan |-> TRUE, tex |-> 0],
     [rawH |-> 16, rawW |-> 4, nan |-> FALSE, tex |-> 0],
     [rawH |-> 16, rawW |-> 40, nan |-> FALSE, tex |-> 0]}

(* templates handed to localize_one_image_on_big directly *)
Templates ==
    {[th |-> 8, tw |-> 8, nan |-> FALSE, tex |-> 3],
     [th |-> 8, tw |-> 8, nan |-> FALSE, tex |-> 9],
     [th |-> 7, tw |-> 9, nan |-> FALSE, tex |-> 0]}

(* the configurations of the runs; SAVE_PARTICLE_VIZ keeps its default,  *)
(* False, so that the loop draws no picture, and the refinement its      *)
(* default radius and step                                               *)
Configs ==
    {[NUM_PARTS |-> n, NUM_ITERS |-> k, SOFTMAX_GAIN |-> Fin(SOFTMAX_GAIN),
      STRUCT_Q_BIG |-> q, VERBOSE |-> v,
      REFINE_RADIUS |-> REFINE_RADIUS, REFINE_STEP |-> REFINE_STEP] :
        n \in {1} \cup (SEED_TOPK..(SEED_TOPK + MaxExtra)), k \in 0..MaxIters,
        q \in {STRUCT_Q_BIG, 90}, v \in BOOLEAN}

Init ==
    /\ pc = "idle"
    /\ cfg \in Configs
    /\ rng \in 0..MaxSeed
    /\ scores = <<>> /\ weights = <<>> /\ parts = <<>>
    /\ hist = NoHist
    /\ Idle

(* an exception that is caught and dropped instead of reaching the caller *)
RaiseSwallowed(e) == pc' = "done" /\ err' = e

(* raise: the call ends, the exception reaches the caller *)
Raise(e) == pc' = "raised" /\ err' = e

(* build_big_context, lines 178-195: the file is read once by _load_gray *)
(* and, when that gave an image, once more for big_rgb                  *)
BuildBigContext ==
    /\ pc = "idle"
    /\ \E readable \in BOOLEAN, img \in RefImages :
          /\ hist' = [hist EXCEPT !.refLoads = @ + (IF readable THEN 2 ELSE 1)]
          /\ IF ~readable
             THEN Raise("FileNotFoundError: big image") /\ UNCHANGED ctx
             ELSE /\ ctx' = [loaded |-> TRUE, H |-> img.H, W |-> img.W,
                             flat |-> img.flat, rim |-> img.rim,
                             tau |-> Quantile(img, cfg.STRUCT_Q_BIG)]
                  /\ pc' = "ctx_ready" /\ UNCHANGED err
    /\ UNCHANGED <<patch, hog, seeds, cfg, tpl, rng, parts, scores, weights, iteration, est, meas,
                   log, trace>>

(* a calibration taken from the width of the reference image *)
PxPerUnitWidth(c) == Rat(c.W, Z_HEIGHT)

(* px_per_unit_big = H / float(cfg.Z_HEIGHT), line 188 *)
PxPerUnit(c) == Rat(c.H, Z_HEIGHT)

(* a factor with numerator and denominator exchanged *)
ScaleInverted(c, tile) ==
    LET p == PxPerUnit(c)
        q == Rat(tile.rawH, Z_HEIGHT)
    IN  Rat(p.d * q.n, p.n * q.d)

(* scale_nominal = px_per_unit_big / (tpl_H_raw / cfg.Z_HEIGHT), line 258 *)
ScaleNominal(c, tile) ==
    LET p == PxPerUnit(c)
        q == Rat(tile.rawH, Z_HEIGHT)
    IN  Rat(p.n * q.d, p.d * q.n)

(* abs(scale_nominal - 1.0) < 1e-6, line 259 *)
NearOne(sc) == Abs(sc.n - sc.d) * 1000000 < sc.d

(* lines 259-261: the tile as it is, or the shape skimage's rescale      *)
(* gives, round(scale * shape), at least 1                               *)
RescaledShape(c, tile) ==
    LET sc == ScaleNominal(c, tile)
    IN  IF NearOne(sc) THEN [th |-> tile.rawH, tw |-> tile.rawW]
        ELSE [th |-> Max2(1, RoundHalfEven(tile.rawH * sc.n, sc.d)),
              tw |-> Max2(1, RoundHalfEven(tile.rawW * sc.n, sc.d))]

(* predict_single_image, lines 456-462, up to the call of line 462 *)
PredictSingleImage ==
    /\ pc = "ctx_ready"
    /\ \E readable \in BOOLEAN, tile \in Tiles :
          /\ hist' = [hist EXCEPT !.tileLoads = @ + 1, !.rng0 = rng,
                                  !.raw = [h |-> tile.rawH, w |-> tile.rawW]]
          /\ IF ~readable
             THEN Raise("FileNotFoundError: tile") /\ UNCHANGED tpl
             ELSE /\ tpl' = [th |-> RescaledShape(ctx, tile).th,
                             tw |-> RescaledShape(ctx, tile).tw,
                             nan |-> tile.nan, tex |-> tile.tex]
                  /\ pc' = "loc_entry" /\ UNCHANGED err
    /\ UNCHANGED <<patch, hog, seeds, cfg, ctx, rng, parts, scores, weights, iteration, est, meas,
                   log, trace>>

(* a direct call of localize_one_image_on_big(cfg, ctx, tpl) *)
LocalizeDirect ==
    /\ pc = "ctx_ready"
    /\ \E t \in Templates : tpl' = t
    /\ hist' = [hist EXCEPT !.rng0 = rng, !.raw = [h |-> 0, w |-> 0]]
    /\ pc' = "loc_entry"
    /\ UNCHANGED <<patch, hog, seeds, cfg, ctx, rng, parts, scores, weights, iteration, est, meas,
                   err, log, trace>>

(* the size check of lines 269-271 *)
TooSmallNever(t) == FALSE

TooSmall(t) == t.th < MIN_TPL \/ t.tw < MIN_TPL

(* lines 267-282: the size check, then the template's features *)
CheckTemplate ==
    /\ pc = "loc_entry"
    /\ IF TooSmall(tpl)
       THEN Raise("ValueError: template too small")
       ELSE pc' = "seed" /\ UNCHANGED err
    /\ UNCHANGED <<patch, hog, seeds, cfg, ctx, tpl, rng, parts, scores, weights, iteration, est,
                   meas, log, trace, hist>>

(* lines 284-296: match_template refuses a template larger than the image *)
Seeding ==
    /\ pc = "seed"
    /\ trace' = Append(trace, "seed")
    /\ IF tpl.th > ctx.H \/ tpl.tw > ctx.W
       THEN Raise("ValueError: image must be larger than template") /\ UNCHANGED seeds
       ELSE pc' = "init" /\ seeds' = Seeds(ctx, tpl) /\ UNCHANGED err
    /\ UNCHANGED <<patch, hog, cfg, ctx, tpl, rng, parts, scores, weights, iteration, est,
                   meas, log, hist>>

(* a loop that stops after its first pass *)
LoopHeadEarlyStop(i) == IF i < Min2(1, cfg.NUM_ITERS) THEN "diffuse" ELSE "estimate"

(* for it in range(cfg.NUM_ITERS), line 323 *)
LoopHead(i) == IF i < cfg.NUM_ITERS THEN "diffuse" ELSE "estimate"

(* lines 298-320 *)
InitParticles ==
    /\ pc = "init"
    /\ parts' = AsSeq(InitParts(ctx, tpl, seeds, cfg.NUM_PARTS, rng))
    /\ weights' = Uniform(Len(parts'))
    /\ rng' = Adv(rng, InitDraws(cfg.NUM_PARTS, Len(seeds)))
    /\ hist' = [hist EXCEPT !.nInit = Len(parts')]
    /\ trace' = Append(trace, "init")
    /\ iteration' = 0
    /\ pc' = LoopHead(0)
    /\ UNCHANGED <<patch, hog, seeds, cfg, ctx, tpl, scores, est, meas, err, log>>

(* lines 324-325 *)
Diffuse ==
    /\ pc = "diffuse"
    /\ LET n == Len(parts)
       IN  /\ parts' = [j \in 1..n |->
                           [x |-> Normal(parts[j].x, STEP_PX, rng, j - 1),
                            y |-> Normal(parts[j].y, STEP_PX, rng, n + j - 1)]]
           /\ rng' = Adv(rng, 2 * n)
    /\ trace' = Append(trace, "diffuse")
    /\ pc' = "clip"
    /\ UNCHANGED <<patch, hog, seeds, cfg, ctx, tpl, scores, weights, iteration, est, meas, err,
                   log, hist>>

(* lines 326-327 *)
ClipStep ==
    /\ pc = "clip"
    /\ parts' = [j \in 1..Len(parts) |-> ClipPart(ctx, tpl, parts[j])]
    /\ hist' = [hist EXCEPT !.clipped = @ \/ parts' # parts]
    /\ trace' = Append(trace, "clip")
    /\ pc' = "score"
    /\ UNCHANGED <<patch, hog, seeds, cfg, ctx, tpl, rng, scores, weights, iteration, est, meas,
                   err, log>>

(* a normalization written into the window it is given: the pixels of   *)
(* the reference image under the window lose their structure            *)
PatchNormalisedInPlace(c) == [c EXCEPT !.flat = c.W, !.rim = FALSE]

(* the context after its arrays were sliced at a window and the views    *)
(* passed to zncc_normed_patch, lines 139-141, and to the histogram:     *)
(* (patch - pm) / ps builds new arrays, the views are only read          *)
AfterPatchReads(c) == c

(* lines 329-354 *)
Score ==
    /\ pc = "score"
    /\ scores' = [j \in 1..Len(parts) |-> ScoreAt(ctx, tpl, parts[j])]
    /\ ctx' = AfterPatchReads(ctx)
    /\ trace' = Append(trace, "score")
    /\ pc' = "softmax"
    /\ UNCHANGED <<patch, hog, seeds, cfg, tpl, rng, parts, weights, iteration, est, meas, err,
                   log, hist>>

(* line 356 *)
Softmax ==
    /\ pc = "softmax"
    /\ weights' = softmax(scores, cfg.SOFTMAX_GAIN)
    /\ hist' = [hist EXCEPT !.fellBack = @ \/ SoftmaxFellBack(scores, cfg.SOFTMAX_GAIN)]
    /\ trace' = Append(trace, "softmax")
    /\ pc' = "resample"
    /\ UNCHANGED <<patch, hog, seeds, cfg, ctx, tpl, rng, parts, scores, iteration, est, meas, err, log>>

(* line 363, and the loop test of line 323 *)
Resample ==
    /\ pc = "resample"
    /\ parts' = resample(parts, weights, rng)
    /\ rng' = Adv(rng, Len(parts))
    /\ iteration' = iteration + 1
    /\ trace' = Append(trace, "resample")
    /\ pc' = LoopHead(iteration + 1)
    /\ UNCHANGED <<patch, hog, seeds, cfg, ctx, tpl, scores, weights, est, meas, err, log, hist>>

(* np.average(parts, axis=0, weights=weights), line 366, on one axis,    *)
(* rounded to the half-pixel grid                                        *)
WeightedMean(v, w) ==
    LET p == ResampleP(w)
        n == Len(v)
    IN  RoundHalfEven(SumTo([i \in 1..n |-> p[i] * v[i]], n), SumTo(p, n))

(* one entry of (d_px.T * w) @ d_px, lines 367-369, in squares of half   *)
(* a pixel: the weighted sum of the products of the deviations a[i] - ma *)
(* and b[i] - mb from the mean on the grid; the regularizer 1e-9 of line *)
(* 369 is below the resolution                                           *)
CovEntry(a, ma, b, mb, w) ==
    LET p == ResampleP(w)
        n == Len(p)
    IN  Rat(SumTo([i \in 1..n |-> p[i] * (a[i] - ma) * (b[i] - mb)], n), SumTo(p, n))

CovPx(ps, w, mx, my) ==
    LET xs == [i \in 1..Len(ps) |-> ps[i].x]
        ys == [i \in 1..Len(ps) |-> ps[i].y]
    IN  [xx |-> CovEntry(xs, mx, xs, mx, w), xy |-> CovEntry(xs, mx, ys, my, w),
         yx |-> CovEntry(ys, my, xs, mx, w), yy |-> CovEntry(ys, my, ys, my, w)]

(* lines 365-369 *)
Estimate ==
    /\ pc = "estimate"
    /\ LET mx == WeightedMean([i \in 1..Len(parts) |-> parts[i].x], weights)
           my == WeightedMean([i \in 1..Len(parts) |-> parts[i].y], weights)
       IN  est' = [est EXCEPT !.mx = mx, !.my = my,
                              !.cov = CovPx(parts, weights, mx, my)]
    /\ trace' = Append(trace, "estimate")
    /\ pc' = "refine"
    /\ UNCHANGED <<patch, hog, seeds, cfg, ctx, tpl, rng, parts, scores, weights, iteration, meas,
                   err, log, hist>>

(* zncc_normed_patch, lines 139-141, of the high-pass window of the       *)
(* position p and the template's normalized high-pass patch: NaN when the *)
(* template holds a NaN                                                   *)
ZnccAt(c, t, p) ==
    IF t.nan THEN NaN ELSE Fin(SHp(t, Origin(p.x, t.tw), Origin(p.y, t.th)))

(* range(-cfg.REFINE_RADIUS, cfg.REFINE_RADIUS + 1, cfg.REFINE_STEP),     *)
(* lines 374-375, for the configuration g: its length and its i-th       *)
(* member, i from 0                                                      *)
RefineCount(g) == ((2 * g.REFINE_RADIUS) \div g.REFINE_STEP) + 1

(* no refinement: the weighted mean is kept *)
RefineNone(g, c, t, mx, my) == [x |-> mx, y |-> my]

(* a range that starts one pixel late *)
RefineOffsetLate(g, i) == -g.REFINE_RADIUS + 1 + g.REFINE_STEP * i

RefineOffset(g, i) == -g.REFINE_RADIUS + g.REFINE_STEP * i

(* the k-th candidate of the scan of lines 374-384, k from 0, row-major: *)
(* its position, whether its patch has the template's shape, its ZNCC    *)
RefineCand(g, c, t, mx, my, k) ==
    LET xc == Clip(mx + 2 * RefineOffset(g, k % RefineCount(g)), X_MIN(t), X_MAX(c, t))
        yc == Clip(my + 2 * RefineOffset(g, k \div RefineCount(g)), Y_MIN(t), Y_MAX(c, t))
        x0 == Origin(xc, t.tw)
        y0 == Origin(yc, t.th)
    IN  [x |-> xc, y |-> yc,
         ok |-> ShapeOK(c, t, x0, y0) /\ ~t.nan,
         s |-> SHp(t, x0, y0)]

(* best of lines 373-385: `if s > best[0]` keeps the first candidate of  *)
(* the largest ZNCC in the row-major scan; the weighted mean stays when   *)
(* no candidate beats the initial -1e9                                    *)
RefineBest(g, c, t, mx, my) ==
    LET K == 1..(RefineCount(g) * RefineCount(g))
        cand == AsSeq([k \in K |-> RefineCand(g, c, t, mx, my, k - 1)])
        good == {k \in K : cand[k].ok}
        vals == {cand[k].s : k \in good}
    IN  IF good = {} THEN [x |-> mx, y |-> my]
        ELSE LET top == CHOOSE v \in vals : \A u \in vals : u <= v
                 k == CHOOSE a \in good :
                         /\ cand[a].s = top
                         /\ \A b \in good : cand[b].s = top => a <= b
             IN  [x |-> cand[k].x, y |-> cand[k].y]

(* a refinement that also takes the covariance around the refined        *)
(* position                                                              *)
RefineRecentred ==
    /\ pc = "refine"
    /\ LET b == RefineBest(cfg, ctx, tpl, est.mx, est.my)
       IN  est' = [est EXCEPT !.xh = b.x, !.yh = b.y,
                              !.cov = CovPx(parts, weights, b.x, b.y)]
    /\ trace' = Append(trace, "refine")
    /\ pc' = "mirror"
    /\ UNCHANGED <<patch, hog, seeds, cfg, ctx, tpl, rng, parts, scores, weights,
                   iteration, meas, err, log, hist>>

(* lines 371-385 *)
Refine ==
    /\ pc = "refine"
    /\ LET b == RefineBest(cfg, ctx, tpl, est.mx, est.my)
       IN  est' = [est EXCEPT !.xh = b.x, !.yh = b.y]
    /\ trace' = Append(trace, "refine")
    /\ pc' = "mirror"
    /\ UNCHANGED <<patch, hog, seeds, cfg, ctx, tpl, rng, parts, scores, weights, iteration, meas,
                   err, log, hist>>

(* a score function without the gate of lines 390-394 *)
StructureScoreNoGate(c, t, xc, yc) == Composite(t, Origin(xc, t.tw), Origin(yc, t.th))

(* structure_score_at, lines 388-410 *)
structure_score_at(c, t, xc, yc) ==
    LET x0 == Origin(xc, t.tw)
        y0 == Origin(yc, t.th)
    IN  IF x0 < 0 \/ y0 < 0 \/ x0 + t.tw >= c.W \/ y0 + t.th >= c.H
        THEN Fin(MIRROR_SENTINEL)
        ELSE IF LowStructure(c, t, x0, y0) THEN Fin(MIRROR_SENTINEL)
        ELSE Composite(t, x0, y0)

(* lines 412-424 *)
Mirror ==
    /\ pc = "mirror"
    /\ LET sh == structure_score_at(ctx, tpl, est.xh, est.yh)
           xm == 2 * ctx.W - est.xh
           ym == 2 * ctx.H - est.yh
           sm == structure_score_at(ctx, tpl, xm, ym)
           take == FLess(sh, sm)
       IN  /\ est' = [est EXCEPT !.sHere = sh, !.sMirr = sm, !.mirrored = take,
                                 !.xh = IF take THEN xm ELSE @,
                                 !.yh = IF take THEN ym ELSE @]
           /\ log' = IF cfg.VERBOSE
                     THEN log \o <<[msg |-> "disambiguation", here |-> sh, mirror |-> sm],
                                   [msg |-> IF take THEN "mirror" ELSE "original",
                                    here |-> sh, mirror |-> sm]>>
                     ELSE log
    /\ trace' = Append(trace, "mirror")
    /\ pc' = "confidence"
    /\ UNCHANGED <<patch, hog, seeds, cfg, ctx, tpl, rng, parts, scores, weights, iteration, meas,
                   err, hist>>

(* the largest numerator but one occurrence of the largest *)
MaxOf(p, I) == CHOOSE a \in I : \A b \in I : p[b] <= p[a]

(* lines 426-431: the margin term np.clip(5 * (w_sorted[0] - w_sorted[1]), *)
(* 0, 1) as a fraction, and the class of the entropy term 1 - H / log N    *)
ConfidenceOf(w) ==
    LET p == ResampleP(w)
        n == Len(p)
        tot == SumTo(p, n)
        i1 == MaxOf(p, 1..n)
        m == IF n > 1 THEN p[i1] - p[MaxOf(p, (1..n) \ {i1})] ELSE 0
    IN  [margin |-> Rat(Clip(MARGIN_GAIN * m, 0, tot), tot),
         entropy |-> IF \A i \in 1..n : p[i] = p[1] THEN "uniform"
                     ELSE IF p[i1] = tot THEN "point" ELSE "mixed"]

(* np.log on the integers whose prime factors are at most 13, in          *)
(* millionths                                                              *)
LnMax == 16

LnMicro(q) ==
    CASE q = 2 -> 693147 [] q = 3 -> 1098612 [] q = 5 -> 1609438
      [] q = 7 -> 1945910 [] q = 11 -> 2397895 [] q = 13 -> 2564949

RECURSIVE Ln(_)
Ln(n) ==
    IF n = 1 THEN 0
    ELSE LET q == CHOOSE d \in {2, 3, 5, 7, 11, 13} : n % d = 0
         IN  LnMicro(q) + Ln(n \div q)

(* tot * Hent in millionths for the weights p[i] / tot: line 428 with the *)
(* terms of weight 0 left out by np.where                                 *)
EntropyTimes(p, tot) ==
    tot * Ln(tot) - SumTo([i \in 1..Len(p) |-> IF p[i] > 0 THEN p[i] * Ln(p[i]) ELSE 0],
                          Len(p))

(* a confidence whose margin term is not clipped *)
ConfUnclipped(w) ==
    LET p == ResampleP(w)
        n == Len(p)
        tot == SumTo(p, n)
        i1 == MaxOf(p, 1..n)
        m == IF n > 1 THEN p[i1] - p[MaxOf(p, (1..n) \ {i1})] ELSE 0
    IN  IF tot > LnMax \/ n > LnMax THEN [known |-> FALSE, v |-> Rat(0, 1)]
        ELSE IF n = 1 THEN [known |-> TRUE, v |-> Rat(1, 2)]
        ELSE [known |-> TRUE,
              v |-> Rat(tot * Ln(n) - EntropyTimes(p, tot) + MARGIN_GAIN * m * Ln(n),
                        2 * tot * Ln(n))]

(* a confidence whose entropy is not divided by log N *)
ConfUnnormalised(w) ==
    LET p == ResampleP(w)
        n == Len(p)
        tot == SumTo(p, n)
        i1 == MaxOf(p, 1..n)
        m == IF n > 1 THEN p[i1] - p[MaxOf(p, (1..n) \ {i1})] ELSE 0
    IN  IF tot > LnMax \/ n > LnMax THEN [known |-> FALSE, v |-> Rat(0, 1)]
        ELSE IF n = 1 THEN [known |-> TRUE, v |-> Rat(1, 2)]
        ELSE [known |-> TRUE,
              v |-> Rat(tot * 1000000 - EntropyTimes(p, tot)
                            + Clip(MARGIN_GAIN * m, 0, tot) * 1000000,
                        2 * tot * 1000000)]

(* lines 426-431: conf = 0.5 * (1 - Hent / log N) + 0.5 * clip(5 * margin, *)
(* 0, 1), with no clamp of the sum.  The value is computed where the       *)
(* logarithms of the numerators are tabulated; the guards of 1e-12 are     *)
(* below the resolution and show only for a single weight, where           *)
(* log(1 + 1e-12) divides an entropy of 0 and the value is 1/2.            *)
ConfValue(w) ==
    LET p == ResampleP(w)
        n == Len(p)
        tot == SumTo(p, n)
        i1 == MaxOf(p, 1..n)
        m == IF n > 1 THEN p[i1] - p[MaxOf(p, (1..n) \ {i1})] ELSE 0
    IN  IF tot > LnMax \/ n > LnMax THEN [known |-> FALSE, v |-> Rat(0, 1)]
        ELSE IF n = 1 THEN [known |-> TRUE, v |-> Rat(1, 2)]
        ELSE [known |-> TRUE,
              v |-> Rat(tot * Ln(n) - EntropyTimes(p, tot)
                            + Clip(MARGIN_GAIN * m, 0, tot) * Ln(n),
                        2 * tot * Ln(n))]

Confidence ==
    /\ pc = "confidence"
    /\ est' = [est EXCEPT !.margin = ConfidenceOf(weights).margin,
                          !.entropy = ConfidenceOf(weights).entropy,
                          !.conf = ConfValue(weights)]
    /\ trace' = Append(trace, "confidence")
    /\ pc' = "convert"
    /\ UNCHANGED <<patch, hog, seeds, cfg, ctx, tpl, rng, parts, scores, weights, iteration, meas,
                   err, log, hist>>

(* lines 433-441: (xh_px - ORIGIN_PX) * u_per_px with u_per_px =          *)
(* Z_HEIGHT / H; the position is in half pixels, the origin in tenths     *)
ToUnits(c, v, origin) == Rat((5 * v - origin) * Z_HEIGHT, 10 * c.H)

(* u_per_px ** 2 for covariances in squares of half a pixel *)
UnitsPerPx2(c) == Rat(Z_HEIGHT * Z_HEIGHT, 4 * c.H * c.H)

(* sign * a * b + add, for fractions a, b *)
RatMulAdd(sign, a, b, add) == Rat(sign * a.n * b.n + add * a.d * b.d, a.d * b.d)

(* a conversion that adds no measurement noise *)
CovUnitsNoNoise(c, cov) ==
    LET u2 == UnitsPerPx2(c)
    IN  [xx |-> RatMulAdd(1, u2, cov.xx, 0), xy |-> RatMulAdd(-1, u2, cov.xy, 0),
         yx |-> RatMulAdd(-1, u2, cov.yx, 0), yy |-> RatMulAdd(1, u2, cov.yy, 0)]

(* lines 443-447: J @ cov_px @ J.T with J = diag(u_per_px, -u_per_px),    *)
(* entry (i, j) being J[i][i] * cov_px[i][j] * J[j][j], then 1.0 * eye(2) *)
(* added                                                                  *)
CovUnits(c, cov) ==
    LET u2 == UnitsPerPx2(c)
    IN  [xx |-> RatMulAdd(1, u2, cov.xx, MEAS_NOISE), xy |-> RatMulAdd(-1, u2, cov.xy, 0),
         yx |-> RatMulAdd(-1, u2, cov.yx, 0), yy |-> RatMulAdd(1, u2, cov.yy, MEAS_NOISE)]

(* lines 433-453 *)
Convert ==
    /\ pc = "convert"
    /\ meas' = [set |-> TRUE,
                x |-> ToUnits(ctx, est.xh, ORIGIN_X),
                y |-> Rat(-ToUnits(ctx, est.yh, ORIGIN_Y).n, ToUnits(ctx, est.yh, ORIGIN_Y).d),
                margin |-> est.margin, entropy |-> est.entropy, conf |-> est.conf,
                cov |-> CovUnits(ctx, est.cov)]
    /\ trace' = Append(trace, "convert")
    /\ pc' = "done"
    /\ UNCHANGED <<patch, hog, seeds, cfg, ctx, tpl, rng, parts, scores, weights, iteration, est,
                   err, log, hist>>

Next ==
    \/ BuildBigContext
    \/ PredictSingleImage
    \/ LocalizeDirect
    \/ CheckTemplate
    \/ Seeding
    \/ InitParticles
    \/ Diffuse
    \/ ClipStep
    \/ Score
    \/ Softmax
    \/ Resample
    \/ Estimate
    \/ Refine
    \/ Mirror
    \/ Confidence
    \/ Convert

Spec == Init /\ [][Next]_vars

----------------------------------------------------------------------------
(* resample as a function of its arguments, next to the runs: a particle  *)
(* set and a weight vector of the caller's; a weight is 0, 1/2, 1 or a    *)
(* non-finite value.                                                      *)

WeightAtoms == {Rat(0, 1), Rat(1, 2), Rat(1, 1), Rat(1, 0)}

ParticlesOf(n) == [i \in 1..n |-> [x |-> 2 * i, y |-> 2 * i + 1]]

InitResample ==
    /\ pc = "resample_in"
    /\ weights \in Vectors(WeightAtoms, MaxVecLen)
    /\ parts = ParticlesOf(Len(weights))
    /\ hist = [NoHist EXCEPT !.nInit = Len(weights)]
    /\ rng \in 0..MaxSeed
    /\ cfg = NoCfg /\ scores = <<>>
    /\ Idle

ApplyResample ==
    /\ pc = "resample_in"
    /\ parts' = resample(parts, weights, rng)
    /\ rng' = Adv(rng, Len(parts))
    /\ pc' = "resample_out"
    /\ UNCHANGED <<patch, hog, seeds, cfg, ctx, tpl, scores, weights, iteration, est, meas, err,
                   log, trace, hist>>

NextResample == ApplyResample \/ Next

SpecResample == (InitResample \/ Init) /\ [][NextResample]_vars

----------------------------------------------------------------------------
(* Two calls on one context: after a call has returned, the caller makes  *)
(* a second call of predict_single_image or localize_one_image_on_big     *)
(* with the same cfg and ctx.  np.random is the generator of the process: *)
(* the second call finds it as the first left it, unless the caller puts  *)
(* it back into the state the first call started from.                    *)

SessionConfigs ==
    {c \in Configs : c.NUM_PARTS = SEED_TOPK /\ c.NUM_ITERS = 1
                      /\ c.STRUCT_Q_BIG = STRUCT_Q_BIG /\ ~c.VERBOSE}

InitSession ==
    /\ pc = "idle"
    /\ cfg \in SessionConfigs
    /\ rng \in 0..MaxSeed
    /\ scores = <<>> /\ weights = <<>> /\ parts = <<>>
    /\ hist = NoHist
    /\ Idle

(* a restore that does not reach the generator the call draws from *)
ReseedIgnored(r0, r) == r

(* np.random.set_state(state at the entry of the earlier call) *)
Reseed(r0, r) == r0

NextCall ==
    /\ pc = "done" /\ hist.calls = 0
    /\ \E again \in BOOLEAN :
          /\ rng' = IF again THEN Reseed(hist.rng0, rng) ELSE rng
          /\ hist' = [hist EXCEPT !.calls = @ + 1, !.reseeded = again,
                                  !.prev = [tpl |-> tpl, rng0 |-> hist.rng0, meas |-> meas,
                                            mirrored |-> est.mirrored]]
    /\ pc' = "ctx_ready"
    /\ tpl' = NoTpl /\ seeds' = <<>> /\ parts' = <<>> /\ scores' = <<>> /\ weights' = <<>>
    /\ iteration' = 0 /\ est' = NoEst /\ meas' = NoMeas /\ trace' = <<>>
    /\ UNCHANGED <<patch, hog, cfg, ctx, err, log>>

NextSession == NextCall \/ Next

SpecSession == InitSession /\ [][NextSession]_vars

----------------------------------------------------------------------------
(* The extraction of the pose next to the runs: the last weights of the   *)
(* loop are any vector of multiples of 1 / ConfGrid that sums to 1, over  *)
(* two particles or more (a run never has fewer than SEED_TOPK), the      *)
(* final position and the height of the reference image are drawn from    *)
(* small sets; lines 426-453 run on them.                                 *)

GridWeights ==
    UNION {{[i \in 1..n |-> Rat(k[i], ConfGrid)] :
                k \in {f \in [1..n -> 0..ConfGrid] : SumTo(f, n) = ConfGrid}} :
           n \in 2..MaxVecLen}

PoseHeights == {8, 10}

PosePositions == {[x |-> 8, y |-> 8], [x |-> 17, y |-> 10]}

(* origins a caller may want: the calibrated one of line 437, the        *)
(* top-left corner, the centre of an 18x8 image                          *)
Origins == {[x |-> ORIGIN_X, y |-> ORIGIN_Y], [x |-> 0, y |-> 0], [x |-> 90, y |-> 40]}

InitPose ==
    /\ pc = "confidence"
    /\ weights \in GridWeights
    /\ parts = ParticlesOf(Len(weights))
    /\ \E h \in PoseHeights : ctx = [NoCtx EXCEPT !.loaded = TRUE, !.H = h, !.W = 18]
    /\ \E q \in PosePositions : est = [NoEst EXCEPT !.xh = q.x, !.yh = q.y]
    /\ \E o \in Origins : hist = [NoHist EXCEPT !.nInit = Len(weights), !.wantOrigin = o]
    /\ cfg = NoCfg /\ scores = <<>> /\ rng = 0
    /\ patch = NoPatch /\ hog = NoHog
    /\ tpl = NoTpl /\ seeds = <<>> /\ iteration = 0
    /\ meas = NoMeas /\ err = "none" /\ log = <<>> /\ trace = <<>>

NextPose == Confidence \/ Convert

SpecPose == InitPose /\ [][NextPose]_vars

----------------------------------------------------------------------------
(* The orientation histogram, lines 122-136, as a function of an image    *)
(* region: grad_ori_unsigned, then hist_unsigned.  A region is its shape  *)
(* and its pixel values, px[<<row, column>>], small integers.  Gradient   *)
(* magnitudes are in tenths.                                              *)

(* scipy.ndimage's default boundary mode, reflect: (b a | a b c | c b) *)
Reflect(i, n) == IF i < 0 THEN -i - 1 ELSE IF i >= n THEN 2 * n - 1 - i ELSE i

PixAt(p, r, c) == p.px[<<Reflect(r, p.h), Reflect(c, p.w)>>]

(* sobel(img, axis=1), line 123: the difference [-1, 0, 1] along the      *)
(* columns, smoothed by [1, 2, 1] along the rows                          *)
SobelX(p, r, c) ==
    (PixAt(p, r - 1, c + 1) - PixAt(p, r - 1, c - 1))
    + 2 * (PixAt(p, r, c + 1) - PixAt(p, r, c - 1))
    + (PixAt(p, r + 1, c + 1) - PixAt(p, r + 1, c - 1))

(* sobel(img, axis=0), line 124 *)
SobelY(p, r, c) ==
    (PixAt(p, r + 1, c - 1) - PixAt(p, r - 1, c - 1))
    + 2 * (PixAt(p, r + 1, c) - PixAt(p, r - 1, c))
    + (PixAt(p, r + 1, c + 1) - PixAt(p, r - 1, c + 1))

(* the integer part of the square root *)
ISqrt(v, hi) == CHOOSE s \in 0..hi : s * s <= v /\ v < (s + 1) * (s + 1)

(* np.hypot(gx, gy), line 126, in tenths *)
Hypot(gx, gy) == ISqrt(100 * (gx * gx + gy * gy), 10 * (Abs(gx) + Abs(gy)))

(* tan(k * pi / 16) in millionths, k = 1..7: the edges of np.linspace(0,  *)
(* pi, bins + 1), line 133, below pi / 2                                  *)
TanMicro(k) ==
    CASE k = 1 -> 198912 [] k = 2 -> 414214 [] k = 3 -> 668179 [] k = 4 -> 1000000
      [] k = 5 -> 1496606 [] k = 6 -> 2414214 [] k = 7 -> 5027339

(* the bin of the angle of (b, a), a >= 0, b >= 0, in [0, pi / 2]: the    *)
(* number of edges k * pi / 16, k >= 1, at or below it                    *)
QuadrantBin(a, b) ==
    Cardinality({k \in 1..(HOG_BINS \div 2) :
                    /\ a > 0
                    /\ IF 2 * k = HOG_BINS THEN b = 0
                       ELSE a * 1000000 >= b * TanMicro(k)})

(* the bin of arctan2(gy, gx) of the signed components: -1, dropped by    *)
(* np.histogram, for an angle below 0                                     *)
OriBinSigned(gy, gx) ==
    IF gy < 0 THEN -1
    ELSE IF gx < 0 /\ gy = 0 THEN HOG_BINS - 1
    ELSE IF gx < 0 THEN HOG_BINS - 1 - QuadrantBin(gy, -gx)
    ELSE QuadrantBin(gy, gx)

(* the bin of ori = arctan2(|gy|, |gx|), line 125 *)
OriBin(gy, gx) == QuadrantBin(Abs(gy), Abs(gx))

(* grad_ori_unsigned, lines 122-127: per pixel, row-major, the bin of the *)
(* orientation and the magnitude                                          *)
grad_ori_unsigned(p) ==
    AsSeq([k \in 1..(p.h * p.w) |->
              LET r == (k - 1) \div p.w
                  c == (k - 1) % p.w
              IN  [bin |-> OriBin(SobelY(p, r, c), SobelX(p, r, c)),
                   mag |-> Hypot(SobelX(p, r, c), SobelY(p, r, c))]])

(* hist_unsigned, lines 130-136: the magnitudes summed per bin, divided   *)
(* by the norm of the sums + 1e-9, so that all-zero sums give zeros      *)
hist_unsigned(g) ==
    LET n == Len(g)
        h == AsSeq([b \in 1..HOG_BINS |->
                      SumTo([k \in 1..n |-> IF g[k].bin = b - 1 THEN g[k].mag ELSE 0], n)])
        tot == SumTo(h, HOG_BINS)
        norm == ISqrt(SumTo([b \in 1..HOG_BINS |-> h[b] * h[b]], HOG_BINS), tot)
    IN  IF n = 0 THEN [b \in 1..HOG_BINS |-> Rat(0, 1)]
        ELSE [b \in 1..HOG_BINS |-> IF norm = 0 THEN Rat(0, 1) ELSE Rat(h[b], norm)]

(* the region turned by 180 degrees: img[::-1, ::-1] *)
Rot180(p) ==
    [p EXCEPT !.px = [q \in DOMAIN p.px |-> p.px[<<p.h - 1 - q[1], p.w - 1 - q[2]>>]]]

(* the regions: every image of a shape of PatchShapes with pixel values  *)
(* in 0..MaxPix                                                           *)
PatchShapes == {<<2, 3>>, <<3, 3>>}

Patches ==
    UNION {{[h |-> s[1], w |-> s[2], px |-> f] :
               f \in [(0..(s[1] - 1)) \X (0..(s[2] - 1)) -> 0..MaxPix]} : s \in PatchShapes}

InitHist ==
    /\ pc = "hist_in"
    /\ patch \in Patches
    /\ hog = NoHog
    /\ cfg = NoCfg /\ scores = <<>> /\ weights = <<>> /\ parts = <<>> /\ rng = 0
    /\ hist = NoHist
    /\ ctx = NoCtx /\ tpl = NoTpl /\ seeds = <<>> /\ iteration = 0
    /\ est = NoEst /\ meas = NoMeas /\ err = "none" /\ log = <<>> /\ trace = <<>>

(* grad_ori_unsigned, then hist_unsigned on its result, as in lines       *)
(* 278-279 and 343-344; the histogram of the call before is kept          *)
ApplyHist ==
    /\ pc = "hist_in"
    /\ hog' = [n |-> hog.n + 1, cur |-> hist_unsigned(grad_ori_unsigned(patch)),
               prev |-> hog.cur]
    /\ pc' = "hist_out"
    /\ UNCHANGED <<patch, seeds, cfg, ctx, tpl, rng, parts, scores, weights, iteration,
                   est, meas, err, log, trace, hist>>

(* the caller turns the region by 180 degrees and asks again *)
RotateRegion ==
    /\ pc = "hist_out" /\ hog.n = 1
    /\ patch' = Rot180(patch)
    /\ pc' = "hist_in"
    /\ UNCHANGED <<hog, seeds, cfg, ctx, tpl, rng, parts, scores, weights, iteration,
                   est, meas, err, log, trace, hist>>

NextHist == ApplyHist \/ RotateRegion

SpecHist == InitHist /\ [][NextHist]_vars

----------------------------------------------------------------------------
(* The dense refinement next to the runs: lines 371-385 on a particle     *)
(* cloud that has collapsed onto one position of the valid region, for    *)
(* every radius up to MaxRadius and every step up to MaxStep.             *)

RefineConfigs ==
    {[NoCfg EXCEPT !.NUM_PARTS = SEED_TOPK, !.REFINE_RADIUS = r, !.REFINE_STEP = s] :
        r \in 0..MaxRadius, s \in 1..MaxStep}

(* the templates that pass the size check, and one holding a NaN *)
RefineTemplates ==
    {t \in Templates : ~TooSmall(t)} \cup {[th |-> 8, tw |-> 8, nan |-> TRUE, tex |-> 0]}

InitRefine ==
    /\ pc = "refine"
    /\ cfg \in RefineConfigs
    /\ \E img \in RefImages :
          ctx = [loaded |-> TRUE, H |-> img.H, W |-> img.W, flat |-> img.flat,
                 rim |-> img.rim, tau |-> Quantile(img, cfg.STRUCT_Q_BIG)]
    /\ tpl \in RefineTemplates
    /\ \E x \in X_MIN(tpl)..X_MAX(ctx, tpl), y \in Y_MIN(tpl)..Y_MAX(ctx, tpl) :
          /\ parts = [i \in 1..SEED_TOPK |-> [x |-> x, y |-> y]]
          /\ est = [NoEst EXCEPT !.mx = x, !.my = y]
    /\ weights = Uniform(SEED_TOPK)
    /\ hist = [NoHist EXCEPT !.nInit = SEED_TOPK]
    /\ scores = <<>> /\ rng = 0 /\ seeds = <<>> /\ iteration = 0
    /\ patch = NoPatch /\ hog = NoHog
    /\ meas = NoMeas /\ err = "none" /\ log = <<>> /\ trace = <<>>

NextRefine == Refine

SpecRefine == InitRefine /\ [][NextRefine]_vars

----------------------------------------------------------------------------
(* Properties *)

(* the positions of a run at which the particle set exists *)
PostInit == {"diffuse", "clip", "score", "softmax", "resample", "estimate",
             "refine", "mirror", "confidence", "convert", "done"}

InRegion(c, t, p) ==
    /\ X_MIN(t) <= p.x /\ p.x <= X_MAX(c, t)
    /\ Y_MIN(t) <= p.y /\ p.y <= Y_MAX(c, t)

(* the tw-by-th window at (round(x - tw/2), round(y - th/2)) lies inside *)
WindowInside(c, t, p) ==
    /\ 0 <= Origin(p.x, t.tw) /\ Origin(p.x, t.tw) + t.tw <= c.W
    /\ 0 <= Origin(p.y, t.th) /\ Origin(p.y, t.th) + t.th <= c.H

(* C1: after initialization, after the clip step of every iteration and   *)
(* after every resample, every particle lies in [tw/2, W - tw/2] x        *)
(* [th/2, H - th/2], its window lies inside the reference image, and the  *)
(* mask window of every scored particle has the template's shape, so no   *)
(* particle is gated for an out-of-bounds window.                         *)
C1_ParticlesInBounds ==
    (pc \in PostInit \ {"clip"}) =>
        \A j \in 1..Len(parts) :
            /\ InRegion(ctx, tpl, parts[j])
            /\ WindowInside(ctx, tpl, parts[j])
            /\ ShapeOK(ctx, tpl, Origin(parts[j].x, tpl.tw), Origin(parts[j].y, tpl.th))

(* C1 witness: in the second iteration the clip step has moved a particle *)
(* back, particles sit on both edges of the valid region, and the one on  *)
(* the right edge got a real score.                                       *)
C1_Witness ==
    /\ pc = "softmax" /\ iteration = 1 /\ hist.clipped
    /\ \E j \in 1..Len(parts) : parts[j].x = X_MIN(tpl)
    /\ \E j \in 1..Len(parts) :
          parts[j].x = X_MAX(ctx, tpl) /\ scores[j] # Fin(GATE_SENTINEL)

(* the sum of a weight vector is 1, over the common denominator *)
SumsToOne(w) ==
    LET n == Len(w)
        D == LcmDen(w, n)
    IN  SumTo([i \in 1..n |-> w[i].n * (D \div w[i].d)], n) = D

Normalised(w) ==
    /\ \A i \in 1..Len(w) : RatFinite(w[i]) /\ w[i].n >= 0
    /\ SumsToOne(w)

(* C2, as amended: for every non-empty score vector and every gain >= 0,  *)
(* the weights of softmax are finite, non-negative and sum to 1; when     *)
(* every entry collapses to 0 they are 1/n each; otherwise a NaN or +inf  *)
(* entry gets weight 0, and a -inf entry gets weight 0 only when the gain *)
(* is 0: under a positive gain, next to a finite or +inf entry, it gets   *)
(* the positive weight exp(-700) / s.                                     *)
C2_SoftmaxNormalised ==
    pc = "softmax_out" =>
        /\ Len(weights) = Len(scores)
        /\ Normalised(weights)
        /\ hist.fellBack => \A i \in 1..Len(weights) : weights[i] = Rat(1, Len(weights))
        /\ ~hist.fellBack => \A i \in 1..Len(scores) :
              /\ scores[i].c \in {"nan", "pinf"} => weights[i].n = 0
              /\ scores[i].c = "ninf" =>
                    (weights[i].n = 0 <=> cfg.SOFTMAX_GAIN.v = 0)

(* C2 witness: a vector with a NaN, a -inf and a finite entry under a     *)
(* positive gain; the NaN entry got weight 0, the -inf entry did not.     *)
C2_Witness ==
    /\ pc = "softmax_out" /\ cfg.SOFTMAX_GAIN.v > 0 /\ ~hist.fellBack
    /\ \E i, j, k \in 1..Len(scores) :
          /\ scores[i] = NaN /\ weights[i].n = 0
          /\ scores[j] = NInf /\ weights[j].n > 0
          /\ scores[k] = Fin(0)

(* C2, as stated: the weights are finite, non-negative and sum to 1,      *)
(* every non-finite entry gets weight 0, and the result is uniform when   *)
(* every entry collapses to 0.                                            *)
C2_AsStated ==
    pc = "softmax_out" =>
        /\ Normalised(weights)
        /\ hist.fellBack => \A i \in 1..Len(weights) : weights[i] = Rat(1, Len(weights))
        /\ ~hist.fellBack => \A i \in 1..Len(scores) :
              ~IsFinite(scores[i]) => weights[i].n = 0

(* C3, as stated: initialization produces exactly NUM_PARTS particles,    *)
(* each of weight 1 / NUM_PARTS, and the set keeps NUM_PARTS particles    *)
(* after every iteration.                                                 *)
C3_ExactlyNumParts ==
    (pc \in PostInit) =>
        /\ Len(parts) = cfg.NUM_PARTS
        /\ hist.nInit = cfg.NUM_PARTS
        /\ (trace = <<"seed", "init">>) =>
              /\ Len(weights) = cfg.NUM_PARTS
              /\ \A i \in 1..Len(weights) : weights[i] = Rat(1, cfg.NUM_PARTS)

C5_FlatWindowGated ==
    pc = "softmax" =>
        \A j \in 1..Len(parts) :
            FlatWindow(ctx, tpl, Origin(parts[j].x, tpl.tw), Origin(parts[j].y, tpl.th))
                => scores[j] = Fin(GATE_SENTINEL)

(* C6: a prepared template with a dimension below 8 px ends the call with *)
(* the template-too-small error before any seeding, initialization,       *)
(* random draw, scoring or resampling, and without a pose estimate.       *)
C6_TooSmallRaisesFirst ==
    (tpl # NoTpl /\ (tpl.th < MIN_TPL \/ tpl.tw < MIN_TPL) /\ pc # "loc_entry") =>
        /\ pc = "raised" /\ err = "ValueError: template too small"
        /\ trace = <<>> /\ seeds = <<>> /\ parts = <<>> /\ scores = <<>>
        /\ weights = <<>> /\ rng = hist.rng0 /\ iteration = 0
        /\ ~meas.set

(* C6 witness: a tile that the rescale made narrower than 8 px was        *)
(* refused.                                                               *)
C6_Witness ==
    /\ pc = "raised" /\ err = "ValueError: template too small"
    /\ hist.tileLoads = 1 /\ tpl.th >= MIN_TPL /\ tpl.tw < MIN_TPL

(* C7: an unreadable reference image and an unreadable tile each end the  *)
(* request with an error at the caller: the file was read once, nothing   *)
(* was computed, no pose is returned, and nothing runs afterwards.        *)
C7_LoadErrorsFatal ==
    /\ err = "FileNotFoundError: big image" =>
          /\ pc = "raised" /\ hist.refLoads = 1 /\ hist.tileLoads = 0
          /\ ~ctx.loaded /\ tpl = NoTpl
    /\ err = "FileNotFoundError: tile" =>
          /\ pc = "raised" /\ hist.tileLoads = 1 /\ tpl = NoTpl
    /\ err \in {"FileNotFoundError: big image", "FileNotFoundError: tile"} =>
          /\ trace = <<>> /\ seeds = <<>> /\ parts = <<>> /\ scores = <<>>
          /\ ~meas.set /\ ~ENABLED Next

(* C7 witness: the reference image was loaded and the tile was not. *)
C7_Witness ==
    /\ pc = "raised" /\ err = "FileNotFoundError: tile"
    /\ ctx.loaded /\ hist.tileLoads = 1

(* every particle gated to the sentinel, or every score non-finite *)
Degenerate(x) ==
    /\ Len(x) > 0
    /\ \/ \A i \in 1..Len(x) : x[i] = Fin(GATE_SENTINEL)
       \/ \A i \in 1..Len(x) : ~IsFinite(x[i])

(* C8: after the softmax of an iteration whose scores are degenerate the  *)
(* weights are 1/n each, no error is pending and the resample step is     *)
(* where the run stands; a run that took the uniform fallback still performs    *)
(* its NUM_ITERS iterations; and an exception never comes from inside the *)
(* loop.                                                                  *)
C8_DegenerateUniform ==
    /\ (pc = "resample" /\ Degenerate(scores)) =>
          /\ \A i \in 1..Len(weights) : weights[i] = Rat(1, Len(scores))
          /\ Len(weights) = Len(parts)
          /\ err = "none"
    /\ (pc = "done" /\ hist.fellBack) => iteration = cfg.NUM_ITERS
    /\ pc = "raised" => trace \in {<<>>, <<"seed">>}

(* C8 witness: the second iteration of a run whose scores are all NaN;    *)
(* the weights are uniform again.                                         *)
C8_Witness ==
    /\ pc = "resample" /\ iteration = 1 /\ hist.fellBack
    /\ \A i \in 1..Len(scores) : scores[i] = NaN
    /\ \A i \in 1..Len(weights) : weights[i] = Rat(1, Len(scores))

(* C9, as stated: the result of a run that took the uniform fallback, or  *)
(* a log record of it, carries a flag saying so.                          *)
C9_FallbackObservable ==
    (pc = "done" /\ hist.fellBack) =>
        \/ "fallback" \in DOMAIN meas
        \/ \E i \in 1..Len(log) : log[i].msg = "fallback"

(* the steps of a run of n iterations, in order *)
RECURSIVE Iterations(_)
Iterations(n) ==
    IF n = 0 THEN <<>>
    ELSE <<"diffuse", "clip", "score", "softmax", "resample">> \o Iterations(n - 1)

ExpectedTrace(n) ==
    <<"seed", "init">> \o Iterations(n)
        \o <<"estimate", "refine", "mirror", "confidence", "convert">>

(* C10: the steps a run has performed are at every moment a prefix of     *)
(* seed, init, NUM_ITERS times (diffuse, clip, score, softmax, resample), *)
(* estimate, refine, mirror, confidence, convert; the run stands at the   *)
(* next step of the list with no error pending; and it ends, with a pose  *)
(* and nothing left to run, exactly when the whole list is performed.     *)
C10_FixedSchedule ==
    (pc \in PostInit \cup {"init"}) =>
        LET want == ExpectedTrace(cfg.NUM_ITERS)
        IN  /\ Len(trace) <= Len(want)
            /\ trace = SubSeq(want, 1, Len(trace))
            /\ pc = "done" <=> trace = want
            /\ pc # "done" => pc = want[Len(trace) + 1] /\ err = "none"
            /\ pc = "done" => meas.set /\ ~ENABLED Next

(* C10 witness: a run of two iterations has ended with all ten steps of   *)
(* its loop performed, its last weights unequal.                          *)
C10_Witness ==
    /\ pc = "done" /\ cfg.NUM_ITERS = 2 /\ iteration = 2
    /\ Len(trace) = 17 /\ est.entropy = "mixed"

(* the full composite score of the window centred at (x, y): the three   *)
(* weighted terms behind the structure gate of the particle loop         *)
FullScore(c, t, x, y) ==
    IF Gated(c, t, Origin(x, t.tw), Origin(y, t.th))
    THEN Fin(MIRROR_SENTINEL)
    ELSE Composite(t, Origin(x, t.tw), Origin(y, t.th))

(* the refined position the mirror step started from, and its reflection *)
(* through the image centre, recovered after the step                    *)
RefinedPos ==
    IF est.mirrored THEN [x |-> 2 * ctx.W - est.xh, y |-> 2 * ctx.H - est.yh]
    ELSE [x |-> est.xh, y |-> est.yh]

MirrorPos == [x |-> 2 * ctx.W - RefinedPos.x, y |-> 2 * ctx.H - RefinedPos.y]

AfterMirror == {"confidence", "convert", "done"}

(* C11: the mirror step returns the point reflection (W - x, H - y) of    *)
(* the refined position exactly when the full composite score at the      *)
(* reflection is strictly greater than the full composite score at the    *)
(* refined position, and the refined position otherwise.                  *)
C11_MirrorIffHigher ==
    (pc \in AfterMirror) =>
        (est.mirrored <=>
            FLess(FullScore(ctx, tpl, RefinedPos.x, RefinedPos.y),
                  FullScore(ctx, tpl, MirrorPos.x, MirrorPos.y)))

(* C12: a mirror candidate whose window leaves the image or whose         *)
(* structured fraction is below MIN_STRUCT_FRAC gets the large negative   *)
(* score of structure_score_at and is never the final position, whatever  *)
(* the score of the refined position; the step raises no error.           *)
C12_GatedMirrorNeverChosen ==
    (pc \in AfterMirror) =>
        LET x0 == Origin(MirrorPos.x, tpl.tw)
            y0 == Origin(MirrorPos.y, tpl.th)
        IN  (~WindowInside(ctx, tpl, MirrorPos) \/ LowStructure(ctx, tpl, x0, y0)) =>
                /\ est.sMirr = Fin(MIRROR_SENTINEL)
                /\ ~est.mirrored
                /\ est.xh = RefinedPos.x /\ est.yh = RefinedPos.y
                /\ err = "none"

(* C12 witness: the refined position has a real score, the window of its *)
(* reflection passes the bounds test of line 390 and is rejected for its *)
(* structured fraction, and the refined position is kept.                *)
C12_Witness ==
    LET x0 == Origin(MirrorPos.x, tpl.tw)
        y0 == Origin(MirrorPos.y, tpl.th)
    IN  /\ pc = "confidence"
        /\ est.sHere.c = "fin" /\ est.sHere # Fin(MIRROR_SENTINEL)
        /\ 0 <= x0 /\ x0 + tpl.tw < ctx.W /\ 0 <= y0 /\ y0 + tpl.th < ctx.H
        /\ LowStructure(ctx, tpl, x0, y0)
        /\ est.sMirr = Fin(MIRROR_SENTINEL) /\ ~est.mirrored

(* a fraction lies in [0, 1] *)
InUnit(v) == RatFinite(v) /\ 0 <= v.n /\ v.n <= v.d

(* C13: the confidence of every returned pose lies in [0, 1], for every   *)
(* normalized weight vector, a point mass and the uniform vector among    *)
(* them: it is half the margin term, itself clamped to [0, 1], plus half  *)
(* an entropy term 1 - H / log N that lies in [0, 1], so that clamping    *)
(* the sum to [0, 1] leaves it as it is.                                  *)
C13_ConfidenceInUnitInterval ==
    (pc \in {"convert", "done"}) =>
        LET v == IF pc = "done" THEN meas.conf.v ELSE est.conf.v
            m == est.margin
        IN  /\ est.conf.known
            /\ pc = "done" => meas.conf = est.conf
            /\ InUnit(v)
            /\ InUnit(m)
            /\ InUnit(Rat(2 * v.n * m.d - m.n * v.d, v.d * m.d))

(* C13 witness: a pose is returned whose weights are neither uniform nor  *)
(* a point mass, whose scaled margin is clamped to 1 and whose confidence *)
(* is strictly between 1/2 and 1.                                         *)
C13_Witness ==
    /\ pc = "done" /\ meas.conf.known
    /\ est.entropy = "mixed" /\ est.margin = Rat(1, 1)
    /\ meas.conf.v.d < 2 * meas.conf.v.n /\ meas.conf.v.n < meas.conf.v.d

(* the weight vector puts all its mass on one particle *)
PointMass(w) ==
    \E i \in 1..Len(w) : w[i] = Rat(1, 1) /\ \A j \in 1..Len(w) : j # i => w[j] = Rat(0, 1)

(* C14: the confidence is 1 when the last weights put all their mass on   *)
(* one particle, and 0 when they are uniform over N > 1 particles.        *)
C14_PointMassOneUniformZero ==
    (pc \in {"convert", "done"} /\ Len(weights) > 1) =>
        /\ PointMass(weights) => est.conf.known /\ est.conf.v = Rat(1, 1)
        /\ weights = Uniform(Len(weights)) => est.conf.known /\ est.conf.v = Rat(0, 1)

(* C14 witness: a pose of confidence 1 is returned for a point mass over  *)
(* three particles.                                                       *)
C14_Witness ==
    /\ pc = "done" /\ Len(weights) = 3 /\ PointMass(weights)
    /\ meas.conf.known /\ meas.conf.v = Rat(1, 1)

(* the inverse of the conversion: the pixel coordinate, in tenths, of a  *)
(* physical coordinate r for the origin given                            *)
FromUnits(c, r, origin) == origin + (r.n * 10 * c.H) \div (r.d * Z_HEIGHT)

RatNeg(r) == Rat(-r.n, r.d)

(* C15: the conversion maps the pixel position (x, y) to                  *)
(* ((x - origin_x) / p, -(y - origin_y) / p) for the origin supplied by   *)
(* the caller and p = px_per_unit > 0, and the inverse transform takes    *)
(* the result back to (x, y).                                             *)
C15_ConversionWithCallerOrigin ==
    (pc = "done") =>
        /\ meas.x = ToUnits(ctx, est.xh, hist.wantOrigin.x)
        /\ meas.y = RatNeg(ToUnits(ctx, est.yh, hist.wantOrigin.y))
        /\ FromUnits(ctx, meas.x, hist.wantOrigin.x) = 5 * est.xh
        /\ FromUnits(ctx, RatNeg(meas.y), hist.wantOrigin.y) = 5 * est.yh

(* a fraction is at least the integer k *)
RatAtLeast(r, k) == RatFinite(r) /\ r.n >= k * r.d

Coincide(ps) == \A j \in 1..Len(ps) : ps[j] = ps[1]

(* C16: the physical covariance is J cov_px J^T for J = diag(1/p, -1/p)   *)
(* plus the fixed measurement noise on both diagonal entries: it is       *)
(* symmetric, its off-diagonal entry is the negated pixel covariance      *)
(* over p^2, and both variances are at least the noise term, so strictly  *)
(* positive, also when all the final particles coincide.                  *)
C16_CovarianceTransform ==
    (pc = "done") =>
        /\ meas.cov.xx = RatMulAdd(1, est.cov.xx, UnitsPerPx2(ctx), MEAS_NOISE)
        /\ meas.cov.yy = RatMulAdd(1, est.cov.yy, UnitsPerPx2(ctx), MEAS_NOISE)
        /\ meas.cov.xy = RatNeg(RatMulAdd(1, est.cov.xy, UnitsPerPx2(ctx), 0))
        /\ meas.cov.xy = meas.cov.yx
        /\ RatAtLeast(meas.cov.xx, MEAS_NOISE) /\ RatAtLeast(meas.cov.yy, MEAS_NOISE)
        /\ meas.cov.xx.n > 0 /\ meas.cov.yy.n > 0
        /\ Coincide(parts) =>
               /\ meas.cov.xx = Rat(MEAS_NOISE, 1) /\ meas.cov.yy = Rat(MEAS_NOISE, 1)
               /\ meas.cov.xy = Rat(0, 1)

(* C16 witness: a pose is returned for a particle cloud with a positive   *)
(* pixel covariance between x and y, whose physical covariance between x  *)
(* and y is negative.                                                     *)
C16_Witness ==
    /\ pc = "done" /\ est.cov.xy.n > 0 /\ meas.cov.xy.n < 0
    /\ meas.cov.xx.n > meas.cov.xx.d

(* the second call of a session has returned for the request of the first *)
SameRequestTwice == pc = "done" /\ hist.calls = 1 /\ tpl = hist.prev.tpl

C18_CallsIndependent ==
    (pc = "done" /\ hist.calls = 1) =>
        /\ hist.rng0 = hist.prev.rng0
        /\ tpl = hist.prev.tpl => meas = hist.prev.meas

C20_RescaleToPhysical ==
    (pc = "loc_entry" /\ hist.raw.h > 0) =>
        /\ tpl.th = RoundHalfEven(Z_HEIGHT * PxPerUnit(ctx).n, PxPerUnit(ctx).d)
        /\ tpl.tw = Max2(1, RoundHalfEven(hist.raw.w * ctx.H, hist.raw.h))
        /\ (tpl.th = hist.raw.h /\ tpl.tw = hist.raw.w)
              <=> (Abs(ctx.H - hist.raw.h) * 1000000 < hist.raw.h)

(* C20 witness: a tile of 8 rows has been prepared for a reference image *)
(* of 10 rows, the template has 10 rows and 10 columns.                  *)
C20_Witness ==
    /\ pc = "loc_entry" /\ hist.raw = [h |-> 8, w |-> 8] /\ ctx.H = 10
    /\ tpl.th = 10 /\ tpl.tw = 10


(* every pixel of the region has gradient (0, 0) *)
ZeroGradient(p) ==
    \A r \in 0..(p.h - 1), c \in 0..(p.w - 1) : SobelX(p, r, c) = 0 /\ SobelY(p, r, c) = 0

(* C21: the orientation histogram of a region, grad_ori_unsigned followed *)
(* by hist_unsigned, equals the histogram of the region turned by 180     *)
(* degrees, and a region whose gradient is zero everywhere gives the      *)
(* all-zero histogram.                                                    *)
C21_HistogramRotationInvariant ==
    /\ (pc = "hist_out" /\ hog.n = 2) => hog.cur = hog.prev
    /\ (pc = "hist_out" /\ ZeroGradient(patch)) =>
          \A b \in 1..HOG_BINS : hog.cur[b] = Rat(0, 1)

(* C21 witness: the histogram of a turned region that differs from the    *)
(* region itself has been computed, the gradient is not zero and two      *)
(* bins or more are filled.                                               *)
C21_Witness ==
    /\ pc = "hist_out" /\ hog.n = 2
    /\ Rot180(patch) # patch
    /\ ~ZeroGradient(patch)
    /\ Cardinality({b \in 1..HOG_BINS : hog.cur[b].n > 0}) >= 2


(* the positions of the valid region on the half-pixel grid *)
ValidPositions(c, t) ==
    {[x |-> x, y |-> y] : x \in X_MIN(t)..X_MAX(c, t), y \in Y_MIN(t)..Y_MAX(c, t)}

(* C22: at every position of the valid region structure_score_at returns *)
(* its sentinel exactly when the gate of the particle loop rejects the    *)
(* position, and otherwise the composite score w1 * s_hp + w2 * s_hog +   *)
(* w3 * s_mag that particle scoring computes there.                       *)
C22_MirrorScorerAsParticleScoring ==
    (pc = "mirror") =>
        \A p \in ValidPositions(ctx, tpl) :
            LET x0 == Origin(p.x, tpl.tw)
                y0 == Origin(p.y, tpl.th)
                s == structure_score_at(ctx, tpl, p.x, p.y)
            IN  /\ (s = Fin(MIRROR_SENTINEL)) <=> Gated(ctx, tpl, x0, y0)
                /\ ~Gated(ctx, tpl, x0, y0) => s = ScoreAt(ctx, tpl, p)


(* the flat index f holds one of the k largest values of the correlation *)
(* map: fewer than k values are greater                                   *)
AmongLargest(c, t, f, k) ==
    Cardinality({g \in 0..(c.W * c.H - 1) : CorrAt(c, t, g) > CorrAt(c, t, f)}) < k

(* C23: seeding yields exactly SEED_TOPK seed centres, each the pixel    *)
(* coordinate (column, row) of one of the SEED_TOPK largest values of    *)
(* the correlation map, which has the size of the reference image; no    *)
(* minimum separation is applied.                                         *)
C23_SeedsAreTopKPeaks ==
    (pc = "init") =>
        /\ Len(seeds) = SEED_TOPK
        /\ \A k \in 1..Len(seeds) :
              \E f \in 0..(ctx.W * ctx.H - 1) :
                  /\ AmongLargest(ctx, tpl, f, SEED_TOPK)
                  /\ seeds[k] = [x |-> 2 * (f % ctx.W), y |-> 2 * (f \div ctx.W)]


(* two floating-point values compare equal *)
FEq(a, b) == a.c # "nan" /\ a = b

(* the candidates of the scan of lines 374-384 in scan order *)
RefineCands ==
    AsSeq([k \in 1..(RefineCount(cfg) * RefineCount(cfg)) |->
              RefineCand(cfg, ctx, tpl, est.mx, est.my, k - 1)])

(* C24: dense refinement returns a candidate clip(mean + (dx, dy)), dx    *)
(* and dy in range(-R, R + 1, step), whose high-pass ZNCC no candidate    *)
(* exceeds, the first of that ZNCC in row-major scan order; every         *)
(* candidate lies in the valid region and within R pixels of the weighted *)
(* mean on each axis; the ZNCC alone decides, without the structure gate. *)
C24_RefineReturnsBestCandidate ==
    (pc = "mirror") =>
        \E cand \in {RefineCands} :
            /\ \A k \in 1..Len(cand) :
                  /\ InRegion(ctx, tpl, cand[k])
                  /\ Abs(cand[k].x - est.mx) <= 2 * cfg.REFINE_RADIUS
                  /\ Abs(cand[k].y - est.my) <= 2 * cfg.REFINE_RADIUS
            /\ \E k \in 1..Len(cand) :
                  /\ est.xh = cand[k].x /\ est.yh = cand[k].y
                  /\ \A j \in 1..Len(cand) :
                        ~FLess(ZnccAt(ctx, tpl, cand[k]), ZnccAt(ctx, tpl, cand[j]))
                  /\ \A j \in 1..(k - 1) :
                        ~FEq(ZnccAt(ctx, tpl, cand[j]), ZnccAt(ctx, tpl, cand[k]))

(* C24 witness: refinement has moved the position to a window that the    *)
(* structure gate rejects, and a later candidate at another position has  *)
(* the same ZNCC.                                                         *)
C24_Witness ==
    /\ pc = "mirror"
    /\ (est.xh # est.mx \/ est.yh # est.my)
    /\ Gated(ctx, tpl, Origin(est.xh, tpl.tw), Origin(est.yh, tpl.th))
    /\ \E cand \in {RefineCands} :
          \E k \in 1..Len(cand) :
              /\ (cand[k].x # est.xh \/ cand[k].y # est.yh)
              /\ FEq(ZnccAt(ctx, tpl, cand[k]), ZnccAt(ctx, tpl, [x |-> est.xh, y |-> est.yh]))


(* the zero offset is a member of range(-R, R + 1, step) *)
ZeroOffsetScanned == \E i \in 0..(RefineCount(cfg) - 1) : RefineOffset(cfg, i) = 0

(* the ZNCC at the refined position is not lower than at the weighted mean *)
RefinedNotWorse ==
    ~FLess(ZnccAt(ctx, tpl, [x |-> est.xh, y |-> est.yh]),
           ZnccAt(ctx, tpl, [x |-> est.mx, y |-> est.my]))

(* C28: refinement never makes the match worse when REFINE_STEP divides   *)
(* REFINE_RADIUS: the zero offset is then among the scanned offsets, and  *)
(* the high-pass ZNCC at the refined position is greater than or equal to *)
(* the one at the weighted mean of the particle filter.                   *)
C28_RefineNeverWorse ==
    (pc = "mirror" /\ cfg.REFINE_RADIUS % cfg.REFINE_STEP = 0) =>
        ZeroOffsetScanned /\ RefinedNotWorse

(* C28 witness: with a radius of one step of two pixels or more          *)
(* refinement has moved the position to a window of strictly higher ZNCC. *)
C28_Witness ==
    /\ pc = "mirror"
    /\ cfg.REFINE_STEP > 1 /\ cfg.REFINE_RADIUS = cfg.REFINE_STEP
    /\ FLess(ZnccAt(ctx, tpl, [x |-> est.mx, y |-> est.my]),
             ZnccAt(ctx, tpl, [x |-> est.xh, y |-> est.yh]))

(* C28 as stated: for every REFINE_RADIUS >= 0 and every REFINE_STEP >= 1 *)
(* the zero offset is scanned and the refined position is not worse.      *)
C28_AsStated ==
    (pc = "mirror") => ZeroOffsetScanned /\ RefinedNotWorse


(* the particle p fails the structure gate of the iteration loop *)
GatedPart(p) == Gated(ctx, tpl, Origin(p.x, tpl.tw), Origin(p.y, tpl.th))

RatLess(a, b) == a.n * b.d < b.n * a.d

(* the particles of the iteration that has just been resampled were not   *)
(* all gated: a score other than the sentinel was computed                *)
SomePassed == \E i \in 1..Len(scores) : scores[i] # Fin(GATE_SENTINEL)

JustResampled == pc \in {"diffuse", "estimate"} /\ iteration >= 1

(* C25: a particle that fails the structure gate gets the sentinel score  *)
(* and a weight that is negligible, not zero: it is positive, and it is   *)
(* strictly smaller than the weight of every particle that passed the     *)
(* gate with a finite score.                                              *)
C25_GatedNegligible ==
    (pc = "resample") =>
        \A g \in 1..Len(parts) :
            GatedPart(parts[g]) =>
                /\ scores[g] = Fin(GATE_SENTINEL)
                /\ weights[g].n > 0
                /\ \A u \in 1..Len(parts) :
                      (~GatedPart(parts[u]) /\ IsFinite(scores[u])) =>
                          RatLess(weights[g], weights[u])

(* C25 witness: an iteration with gated particles and particles of finite *)
(* score side by side.                                                    *)
C25_Witness ==
    /\ pc = "resample"
    /\ \E g \in 1..Len(parts) : GatedPart(parts[g])
    /\ \E u \in 1..Len(parts) : ~GatedPart(parts[u]) /\ IsFinite(scores[u])

(* C25 as stated: a gated particle has the sentinel score and zero        *)
(* likelihood; whenever a particle of the iteration passes the gate, the  *)
(* weight of every gated particle is strictly smaller than the weight of  *)
(* every ungated one, and the resample of the iteration draws no gated    *)
(* particle.                                                              *)
C25_AsStated ==
    /\ (pc = "resample") =>
          \A g \in 1..Len(parts) :
              GatedPart(parts[g]) =>
                  /\ scores[g] = Fin(GATE_SENTINEL)
                  /\ \A u \in 1..Len(parts) :
                        ~GatedPart(parts[u]) => RatLess(weights[g], weights[u])
    /\ (JustResampled /\ SomePassed) =>
          \A j \in 1..Len(parts) : ~GatedPart(parts[j])


(* the particle set is the one initialization has just built *)
JustInitialized == trace # <<>> /\ trace[Len(trace)] = "init"

(* C26: initialization draws the seed-clustered particles, the same       *)
(* number around every seed, and the others uniformly over the valid      *)
(* region; for every NUM_PARTS the seed-clustered particles number at     *)
(* most 0.8 * NUM_PARTS and the uniform ones NUM_PARTS minus the          *)
(* seed-clustered count.                                                  *)
C26_InitSplit ==
    JustInitialized =>
        LET n == cfg.NUM_PARTS
            nl == NLocal(n, Len(seeds))
            ng == NGlobal(n, Len(seeds))
        IN  /\ nl = NLocalEach(n, Len(seeds)) * Len(seeds)
            /\ 10 * nl <= 8 * n
            /\ ng = n - nl
            /\ Len(parts) = nl + ng


(* C27: in estimate extraction weights and particles are index-aligned:   *)
(* for every i and every NUM_ITERS >= 1 the weight that multiplies the    *)
(* final particle i in the weighted mean and covariance is the softmax    *)
(* weight of the score at the position of that particle.                  *)
C27_WeightsIndexAligned ==
    (pc = "refine" /\ cfg.NUM_ITERS >= 1) =>
        /\ weights = softmax(scores, cfg.SOFTMAX_GAIN)
        /\ \A i \in 1..Len(parts) : scores[i] = ScoreAt(ctx, tpl, parts[i])


(* C29: refinement and mirror disambiguation change only the returned     *)
(* mean position: the returned covariance is the covariance of the final  *)
(* particle set under the last weights around their weighted mean, and    *)
(* the returned confidence is a function of the last weights, whatever    *)
(* refinement and the mirror step did to the position.                    *)
C29_CovAndConfFromParticlesAlone ==
    (pc = "done") =>
        LET mx == WeightedMean([i \in 1..Len(parts) |-> parts[i].x], weights)
            my == WeightedMean([i \in 1..Len(parts) |-> parts[i].y], weights)
        IN  /\ meas.cov = CovUnits(ctx, CovPx(parts, weights, mx, my))
            /\ meas.conf = ConfValue(weights)
            /\ meas.margin = ConfidenceOf(weights).margin
            /\ meas.entropy = ConfidenceOf(weights).entropy

(* C29 witness: a call has returned the mirror position of a refined      *)
(* position that differs from the weighted mean, with a covariance that   *)
(* is not the measurement noise alone.                                    *)
C29_Witness ==
    /\ pc = "done" /\ est.mirrored
    /\ (RefinedPos.x # est.mx \/ RefinedPos.y # est.my)
    /\ meas.cov.xx # Rat(MEAS_NOISE, 1)


(* the call came through predict_single_image, which prepared tpl *)
PreparedByPredict == hist.raw.h > 0 /\ tpl # NoTpl

(* C30: for every tile processed by predict_single_image with a context   *)
(* of build_big_context from the same configuration the prepared template *)
(* is exactly as tall as the reference image (th = H), and no wider when  *)
(* the call gets past seeding: the valid region is the single row         *)
(* Y_MIN = Y_MAX = H / 2 with X_MIN <= X_MAX, and every particle has that *)
(* one y once it is clipped.                                              *)
C30_PreparedTemplateFillsHeight ==
    PreparedByPredict =>
        /\ tpl.th = ctx.H
        /\ (pc \in PostInit) =>
              /\ tpl.tw <= ctx.W
              /\ Y_MIN(tpl) = Y_MAX(ctx, tpl)
              /\ X_MIN(tpl) <= X_MAX(ctx, tpl)
              /\ (pc # "clip") => \A j \in 1..Len(parts) : parts[j].y = Y_MIN(tpl)

(* C30 witness: a tile that had to be rescaled has been localized, the    *)
(* template narrower than the reference image and the particles on more   *)
(* than one x.                                                            *)
C30_Witness ==
    /\ pc = "done" /\ PreparedByPredict
    /\ hist.raw.h # ctx.H
    /\ tpl.tw < ctx.W
    /\ \E j \in 1..Len(parts) : parts[j].x # parts[1].x

(* C30 as stated: the prepared template is strictly smaller than the      *)
(* reference image in both dimensions, so X_MIN < X_MAX and Y_MIN < Y_MAX. *)
C30_AsStated ==
    (PreparedByPredict /\ pc \in PostInit) =>
        /\ tpl.th < ctx.H /\ tpl.tw < ctx.W
        /\ X_MIN(tpl) < X_MAX(ctx, tpl)
        /\ Y_MIN(tpl) < Y_MAX(ctx, tpl)

====
